---------------------------- MODULE Spec2Model ----------------------------
(***************************************************************************)
(* A model of src/server.js: the chunking helper, the bearer-token gate,   *)
(* the chunked bulk insert, the NDJSON stream ingester and the routes      *)
(* generateRoutes registers for one table.                                 *)
(*                                                                         *)
(* Three groups of specifications share the module:                        *)
(*   SpecChunk / SpecChunkFair  chunkArray run statement by statement,     *)
(*                              called directly or with the chunk size of  *)
(*                              the bulk-upload route;                     *)
(*   SpecList                   the paginated List route;                  *)
(*   Spec / SpecInsert / SpecConc  the mutating routes over the backend.   *)
(***************************************************************************)
EXTENDS Integers, Sequences, FiniteSets, TLC

VARIABLES
    ca_pc, ca_caller, ca_query, ca_array, ca_size, ca_i, ca_result,
    ls_pc, ls_query, ls_count, ls_fail, ls_range, ls_resp,
    table, req

caVars == <<ca_pc, ca_caller, ca_query, ca_array, ca_size, ca_i, ca_result>>
lsVars == <<ls_pc, ls_query, ls_count, ls_fail, ls_range, ls_resp>>
srvVars == <<table, req>>
vars == <<caVars, lsVars, srvVars>>

(***************************************************************************)
(* Bounds of the model.                                                    *)
(***************************************************************************)
MaxLen == 4
MaxParamLen == 2
MaxListRows == 64
MaxRows == 3
MaxLines == 3

(***************************************************************************)
(* JavaScript values the model needs.                                      *)
(***************************************************************************)
\* An absent query parameter; no string of Chars equals it.
Undefined == <<"undefined">>
\* A number as parseInt returns it: NaN, or an integer.
NaN == [nan |-> TRUE, val |-> 0]
Num(n) == [nan |-> FALSE, val |-> n]

Min(a, b) == IF a < b THEN a ELSE b
Max(a, b) == IF a > b THEN a ELSE b

RECURSIVE SeqsUpTo(_, _)
SeqsUpTo(S, n) ==
    IF n = 0 THEN {<<>>}
    ELSE LET shorter == SeqsUpTo(S, n - 1)
         IN  shorter \cup {Append(s, x) : s \in {t \in shorter : Len(t) = n - 1}, x \in S}

RECURSIVE Concat(_)
Concat(ss) == IF ss = <<>> THEN <<>> ELSE Head(ss) \o Concat(Tail(ss))

(***************************************************************************)
(* Query-string parameters are strings, modelled as sequences of           *)
(* characters so that parseInt reads them digit by digit.                  *)
(***************************************************************************)
Digits == {"0", "1", "2", "3"}
Chars == Digits \cup {"-", "a", " "}
DigitVal(c) == CASE c = "0" -> 0 [] c = "1" -> 1 [] c = "2" -> 2 [] c = "3" -> 3
QueryValues == {Undefined} \cup SeqsUpTo(Chars, MaxParamLen)

RECURSIVE SkipSpaces(_)
SkipSpaces(s) == IF s # <<>> /\ Head(s) = " " THEN SkipSpaces(Tail(s)) ELSE s

RECURSIVE ReadDigits(_, _)
ReadDigits(s, acc) ==
    IF s # <<>> /\ Head(s) \in Digits
    THEN ReadDigits(Tail(s), 10 * acc + DigitVal(Head(s)))
    ELSE acc

\* parseInt(v): leading white space is skipped, one sign is read, then the
\* longest run of decimal digits; NaN when there is no digit there.  A negative
\* zero is a zero to every use the routes make of it (|| and Math.max).
parseInt(v) ==
    IF v = Undefined THEN NaN
    ELSE LET t == SkipSpaces(v)
             neg == t # <<>> /\ Head(t) = "-"
             body == IF neg THEN Tail(t) ELSE t
         IN  IF body = <<>> \/ Head(body) \notin Digits THEN NaN
             ELSE IF neg THEN Num(0 - ReadDigits(body, 0)) ELSE Num(ReadDigits(body, 0))

\* a || b for a number a as parseInt returns it: NaN and 0 are falsy.
OrElse(a, b) == IF a.nan \/ a.val = 0 THEN b ELSE a.val

DefaultChunkSize == 30
CreateChunkSize == 5000
PageLimit == 30

(***************************************************************************)
(* chunkArray (server.js 21-27).                                           *)
(***************************************************************************)
\* slice with its end taken as inclusive: neighbouring chunks would overlap.
sliceInclusiveEnd(array, start, end) ==
    LET len == Len(array)
        from == IF start < 0 THEN Max(len + start, 0) ELSE Min(start, len)
        to == IF end < 0 THEN Max(len + end, 0) ELSE Min(end, len)
    IN  SubSeq(array, from + 1, Min(to + 1, len))

\* Array.prototype.slice(start, end): a negative index counts from the end,
\* both are clamped to 0..length, and the slice is empty when end <= start.
slice(array, start, end) ==
    LET len == Len(array)
        from == IF start < 0 THEN Max(len + start, 0) ELSE Min(start, len)
        to == IF end < 0 THEN Max(len + end, 0) ELSE Min(end, len)
    IN  SubSeq(array, from + 1, to)

\* One iteration of the for loop: result.push(array.slice(i, i + size)).
chunkPush(array, size, i, result) == Append(result, slice(array, i, i + size))

\* The loop's update expression, i += size.
chunkAdvance(size, i) == i + size

\* chunkArray as a function, for the callers that pass a positive size.
RECURSIVE chunkLoop(_, _, _, _)
chunkLoop(array, size, i, result) ==
    IF i < Len(array)
    THEN chunkLoop(array, size, chunkAdvance(size, i), chunkPush(array, size, i, result))
    ELSE result

chunkArray(array, size) == chunkLoop(array, size, 0, <<>>)

\* The chunk size without its floor of 1.
bulkChunkSizeNoFloor(q) == OrElse(parseInt(q), DefaultChunkSize)

\* const chunkSize = Math.max(1, parseInt(req.query.chunkSize) || 30)
bulkChunkSize(q) == Max(1, OrElse(parseInt(q), DefaultChunkSize))

(***************************************************************************)
(* SpecChunk: chunkArray run one loop iteration at a time.  The call comes *)
(* either from the bulk-upload route, with the chunk size the route        *)
(* computes from its query parameter, or directly with any size of         *)
(* MinSize..MaxSize.  A run whose index never reaches the array's length   *)
(* is followed for MaxIter iterations.                                     *)
(***************************************************************************)
Elems == {1, 2}
MinSize == 0 - 2
MaxSize == MaxLen + 1
MaxIter == MaxLen + 2

ChunkInit ==
    /\ ca_pc = "call"
    /\ ca_caller \in {"direct", "bulk"}
    /\ ca_array \in SeqsUpTo(Elems, MaxLen)
    /\ \/ ca_caller = "bulk" /\ ca_query \in QueryValues /\ ca_size = 0
       \/ ca_caller = "direct" /\ ca_query = Undefined /\ ca_size \in MinSize..MaxSize
    /\ ca_i = 0
    /\ ca_result = <<>>

\* server.js 278-280: the route computes chunkSize and chunkArray starts.
BulkCall ==
    /\ ca_pc = "call" /\ ca_caller = "bulk"
    /\ ca_size' = bulkChunkSize(ca_query)
    /\ ca_pc' = "loop"
    /\ UNCHANGED <<ca_caller, ca_query, ca_array, ca_i, ca_result, lsVars, srvVars>>

\* chunkArray(array, size) called as is.
DirectCall ==
    /\ ca_pc = "call" /\ ca_caller = "direct"
    /\ ca_pc' = "loop"
    /\ UNCHANGED <<ca_caller, ca_query, ca_array, ca_size, ca_i, ca_result, lsVars, srvVars>>

\* server.js 23-25: the loop's test holds; push a slice and advance.
ChunkStep ==
    /\ ca_pc = "loop"
    /\ ca_i < Len(ca_array)
    /\ Len(ca_result) < MaxIter
    /\ ca_result' = chunkPush(ca_array, ca_size, ca_i, ca_result)
    /\ ca_i' = chunkAdvance(ca_size, ca_i)
    /\ UNCHANGED <<ca_pc, ca_caller, ca_query, ca_array, ca_size, lsVars, srvVars>>

\* server.js 23, 26: the loop's test fails; return result.
ChunkReturn ==
    /\ ca_pc = "loop"
    /\ ~(ca_i < Len(ca_array))
    /\ ca_pc' = "done"
    /\ UNCHANGED <<ca_caller, ca_query, ca_array, ca_size, ca_i, ca_result, lsVars, srvVars>>

ChunkNext == BulkCall \/ DirectCall \/ ChunkStep \/ ChunkReturn

(***************************************************************************)
(* SpecList: GET /api/T (server.js 129-153).  The backend holds ls_count   *)
(* rows; row k is the k-th in descending release_date order.               *)
(***************************************************************************)
NoResp == [status |-> 0, page |-> 0, total |-> 0, totalPages |-> 0, results |-> <<>>]
ErrResp(code) == [status |-> code, page |-> 0, total |-> 0, totalPages |-> 0, results |-> <<>>]

\* const page = parseInt(req.query.page) || 1
listPage(q) == OrElse(parseInt(q), 1)

\* The range with its end one row too far.
pageRangeLong(page) ==
    LET from == (page - 1) * PageLimit
    IN  [from |-> from, to |-> from + PageLimit]

\* const from = (page - 1) * limit; const to = from + limit - 1
pageRange(page) ==
    LET from == (page - 1) * PageLimit
    IN  [from |-> from, to |-> from + PageLimit - 1]

\* Math.ceil(count / limit), count a row count
ceilDiv(count, limit) == (count + limit - 1) \div limit

\* .range(from, to) over the ordered rows: the rows at offsets from..to, both
\* inclusive, that exist.
selectRange(count, from, to) == slice([k \in 1..count |-> k], from, to + 1)

\* res.json({ page, total: count, totalPages: Math.ceil(count / limit), results: data })
listJson(page, count, data) ==
    [status |-> 200, page |-> page, total |-> count,
     totalPages |-> ceilDiv(count, PageLimit), results |-> data]

ListInit ==
    /\ ls_pc = "recv"
    /\ ls_query \in QueryValues
    /\ ls_count \in 0..MaxListRows
    /\ ls_fail \in BOOLEAN
    /\ ls_range = [from |-> 0, to |-> 0]
    /\ ls_resp = NoResp

\* server.js 131-140: the page, its range, and the select sent to the backend.
ListQuery ==
    /\ ls_pc = "recv"
    /\ ls_range' = pageRange(listPage(ls_query))
    /\ ls_pc' = "await"
    /\ UNCHANGED <<ls_query, ls_count, ls_fail, ls_resp, caVars, srvVars>>

\* server.js 142-149: the backend answers.  It reports an error when it fails
\* (ls_fail) or is asked for a range that starts before the first row.
ListRespond ==
    /\ ls_pc = "await"
    /\ ls_resp' = IF ls_fail \/ ls_range.from < 0
                  THEN ErrResp(400)
                  ELSE listJson(listPage(ls_query), ls_count,
                                selectRange(ls_count, ls_range.from, ls_range.to))
    /\ ls_pc' = "sent"
    /\ UNCHANGED <<ls_query, ls_count, ls_fail, ls_range, caVars, srvVars>>

ListNext == ListQuery \/ ListRespond

(***************************************************************************)
(* The backend: one table of rows with a unique id, written one statement  *)
(* at a time.  A statement is applied whole or not at all, and any         *)
(* statement may fail for a reason of the backend's own ("other").         *)
(***************************************************************************)
Ids == {1, 2}
Vals == {1, 2}
Rows == [id : Ids, val : Vals]
RowSeqs == SeqsUpTo(Rows, MaxRows)

idsOf(rows) == {rows[k].id : k \in 1..Len(rows)}
hasId(tbl, id) == \E k \in 1..Len(tbl) : tbl[k].id = id
distinctIds(rows) == Cardinality(idsOf(rows)) = Len(rows)

\* insert(chunk): a row whose id is taken, in the table or earlier in the
\* statement, is a duplicate-key error.
backendInsert(tbl, chunk) ==
    IF distinctIds(chunk) /\ idsOf(chunk) \cap idsOf(tbl) = {}
    THEN [err |-> "none", table |-> tbl \o chunk]
    ELSE [err |-> "duplicate", table |-> tbl]

\* upsert(chunk, { onConflict: 'id', ignoreDuplicates: true }): ON CONFLICT DO
\* NOTHING, row by row in the statement's order.
RECURSIVE upsertIgnore(_, _)
upsertIgnore(tbl, chunk) ==
    IF chunk = <<>> THEN tbl
    ELSE upsertIgnore(IF hasId(tbl, Head(chunk).id) THEN tbl ELSE Append(tbl, Head(chunk)),
                      Tail(chunk))

\* upsert(chunk, { onConflict: 'id' }): ON CONFLICT DO UPDATE; a statement that
\* would touch one row twice is refused.
RECURSIVE upsertMergeRows(_, _)
upsertMergeRows(tbl, chunk) ==
    IF chunk = <<>> THEN tbl
    ELSE LET r == Head(chunk)
         IN  upsertMergeRows(IF hasId(tbl, r.id)
                             THEN [k \in 1..Len(tbl) |-> IF tbl[k].id = r.id THEN r ELSE tbl[k]]
                             ELSE Append(tbl, r),
                             Tail(chunk))

backendUpsertMerge(tbl, chunk) ==
    IF distinctIds(chunk)
    THEN [err |-> "none", table |-> upsertMergeRows(tbl, chunk)]
    ELSE [err |-> "twice", table |-> tbl]

\* update(patch).eq("id", id) and delete().eq("id", id)
backendUpdate(tbl, id, val) ==
    [k \in 1..Len(tbl) |-> IF tbl[k].id = id THEN [id |-> id, val |-> val] ELSE tbl[k]]

backendDelete(tbl, id) == SelectSeq(tbl, LAMBDA row : row.id # id)

\* A write as the request issues it, and what the backend makes of it.
Write(op, rows, id, val) == [op |-> op, rows |-> rows, id |-> id, val |-> val]

backendApply(w, tbl) ==
    CASE w.op = "insert" -> backendInsert(tbl, w.rows)
      [] w.op = "upsert-ignore" -> [err |-> "none", table |-> upsertIgnore(tbl, w.rows)]
      [] w.op = "upsert-merge" -> backendUpsertMerge(tbl, w.rows)
      [] w.op = "update" -> [err |-> "none", table |-> backendUpdate(tbl, w.id, w.val)]
      [] w.op = "delete" -> [err |-> "none", table |-> backendDelete(tbl, w.id)]

\* The backend's answers to write w: as applied, or a failure of its own.
Outcomes(w, tbl) == {backendApply(w, tbl), [err |-> "other", table |-> tbl]}

\* The skip mode without ignoreDuplicates: every mode but merge upserts, and
\* overwrites.
chunkWriteOverwrite(mode, chunk) ==
    Write(IF mode \in {"skip", "merge"} THEN "upsert-merge" ELSE "insert", chunk, 0, 0)

\* server.js 47-55: the statement insertChunks sends for a chunk in a mode.
chunkWrite(mode, chunk) ==
    Write(CASE mode = "skip" -> "upsert-ignore"
            [] mode = "merge" -> "upsert-merge"
            [] OTHER -> "insert",
          chunk, 0, 0)

(***************************************************************************)
(* Requests.  req[s] is the request slot s is serving: what arrived, where *)
(* its handler stands (pc), the locals of the functions it is in, its      *)
(* response, and two records of what happened: log, the backend writes it  *)
(* issued and their answers, and lines, the lines read from the stream.    *)
(***************************************************************************)
NoError == [chunk |-> 0, of |-> 0, msg |-> "none"]
Error(k, n, msg) == [chunk |-> k, of |-> n, msg |-> msg]
NoAnswer == [status |-> 0, kind |-> "none", count |-> 0, err |-> NoError]
Answer(status, kind, count, err) == [status |-> status, kind |-> kind, count |-> count, err |-> err]

\* The Authorization header: absent, or its text as the words between spaces.
NoHeader == [given |-> FALSE, words |-> <<>>]
Header(words) == [given |-> TRUE, words |-> words]
AuthHeaders ==
    {NoHeader, Header(<<"">>), Header(<<"Bearer">>),
     Header(<<"Bearer", "good">>), Header(<<"Bearer", "expired">>)}

\* A JSON body: an array of rows, or an object with the fields the routes read.
ArrayBody(rows) ==
    [kind |-> "array", rows |-> rows, itemsIsArray |-> FALSE, items |-> <<>>,
     fileUrl |-> "absent", id |-> 0, val |-> 0]
ObjectBody(itemsIsArray, items, fileUrl, id, val) ==
    [kind |-> "object", rows |-> <<>>, itemsIsArray |-> itemsIsArray, items |-> items,
     fileUrl |-> fileUrl, id |-> id, val |-> val]
FileUrls == {"absent", "", "url"}
BulkBodies ==
    {ArrayBody(rows) : rows \in RowSeqs}
    \cup {ObjectBody(TRUE, items, f, 0, 0) : items \in RowSeqs, f \in FileUrls}
    \cup {ObjectBody(FALSE, <<>>, f, 0, 0) : f \in FileUrls}
ServerQueries == {Undefined, <<"0">>, <<"1">>, <<"2">>}

Request(route, query, body, paramId) ==
    [route |-> route, query |-> query, body |-> body, paramId |-> paramId]
Requests ==
    {Request("create", Undefined, ArrayBody(rows), 0) : rows \in RowSeqs}
    \cup {Request("create", Undefined, ObjectBody(FALSE, <<>>, "absent", r.id, r.val), 0) : r \in Rows}
    \cup {Request("update", Undefined, ObjectBody(FALSE, <<>>, "absent", 0, v), id) : v \in Vals, id \in Ids}
    \cup {Request("delete", Undefined, ObjectBody(FALSE, <<>>, "absent", 0, 0), id) : id \in Ids}
    \cup {Request("bulk", q, b, 0) : q \in ServerQueries, b \in BulkBodies}

\* A line of the streamed resource: blank (empty or white space only), the
\* JSON text of a row, or text JSON.parse rejects.
Lines == {[kind |-> "blank", row |-> [id |-> 0, val |-> 0]],
          [kind |-> "bad", row |-> [id |-> 0, val |-> 0]]}
         \cup {[kind |-> "json", row |-> r] : r \in Rows}

IdleReq ==
    [pc |-> "idle", route |-> "none", header |-> NoHeader, query |-> Undefined,
     body |-> ObjectBody(FALSE, <<>>, "absent", 0, 0), paramId |-> 0,
     user |-> "none", ran |-> FALSE, chunkSize |-> 0,
     rows |-> <<>>, icSize |-> 0, mode |-> "skip", chunks |-> <<>>, i |-> 0,
     insertedTotal |-> 0, caller |-> "none",
     buffer |-> <<>>, total |-> 0, eof |-> FALSE,
     inflight |-> <<>>, log |-> <<>>, lines |-> <<>>, resp |-> NoAnswer]

\* res.status(..).json(..): the response is sent and the handler returns.
respond(r, answer) == [r EXCEPT !.pc = "done", !.resp = answer]

\* The write sent without being awaited: the loop goes on to the next chunk.
awaitWriteNoWait(r, w, pc) ==
    [r EXCEPT !.i = @ + 1,
              !.inflight = Append(@, w),
              !.log = Append(@, [ev |-> "issue", w |-> w, err |-> "none",
                                 before |-> <<>>, after |-> <<>>])]

\* await <write>: the write goes to the backend and the request waits at pc.
awaitWrite(r, w, pc) ==
    [r EXCEPT !.pc = pc,
              !.inflight = Append(@, w),
              !.log = Append(@, [ev |-> "issue", w |-> w, err |-> "none",
                                 before |-> <<>>, after |-> <<>>])]

\* The awaited write is answered with out, having found the table as tbl.
answered(r, out, tbl) ==
    [r EXCEPT !.inflight = Tail(@),
              !.log = Append(@, [ev |-> IF out.err = "none" THEN "ok" ELSE "fail",
                                 w |-> Head(r.inflight), err |-> out.err,
                                 before |-> tbl, after |-> out.table])]

(***************************************************************************)
(* authMiddleware (server.js 29-39) and the routes it guards.              *)
(***************************************************************************)
\* app.post / app.put / app.delete are registered with authMiddleware.
needsAuth(route) == route \in {"create", "update", "delete", "bulk"}

\* authHeader.split(' ')[1]
tokenOf(header) == IF Len(header.words) >= 2 THEN header.words[2] ELSE "undefined"

\* jwt.verify(token, secret): the token is signed with the secret and not expired.
jwtVerify(token) == token = "good"

\* The middleware going on after the 403: the callback lacks its return.
authOutcomeNoReturn(header) ==
    IF ~header.given \/ header.words = <<"">> THEN "401" ELSE "next"

\* What the middleware does with a header: 401, 403, or next().
authOutcome(header) ==
    IF ~header.given \/ header.words = <<"">> THEN "401"
    ELSE IF ~jwtVerify(tokenOf(header)) THEN "403"
    ELSE "next"

\* Request q with header h as express hands it to its route.
arrived(h, q) ==
    [IdleReq EXCEPT !.pc = IF needsAuth(q.route) THEN "mw" ELSE "handler",
                    !.route = q.route, !.header = h, !.query = q.query,
                    !.body = q.body, !.paramId = q.paramId]

\* A request arrives at a slot that serves none.
Arrive(s) ==
    /\ req[s].pc = "idle"
    /\ \E h \in AuthHeaders, q \in Requests : req' = [req EXCEPT ![s] = arrived(h, q)]
    /\ UNCHANGED <<table, caVars, lsVars>>

\* The response is out and the request is over: the slot is free again.
Release(s) ==
    /\ req[s].pc = "done"
    /\ req' = [req EXCEPT ![s] = IdleReq]
    /\ UNCHANGED <<table, caVars, lsVars>>

AuthMiddleware(s) ==
    /\ req[s].pc = "mw"
    /\ LET r == req[s]
           o == authOutcome(r.header)
       IN  req' = [req EXCEPT ![s] =
                     CASE o = "401" -> respond(r, Answer(401, "unauthorized", 0, NoError))
                       [] o = "403" -> respond(r, Answer(403, "forbidden", 0, NoError))
                       [] OTHER -> [r EXCEPT !.user = "claims", !.pc = "handler"]]
    /\ UNCHANGED <<table, caVars, lsVars>>

(***************************************************************************)
(* insertChunks (server.js 42-60) and its callers' continuations.          *)
(***************************************************************************)
\* The call: insertedTotal = 0, chunks = chunkArray(rows, chunkSize), and the
\* loop starts at the first chunk.
callInsertChunks(r, rows, chunkSize, mode, caller) ==
    [r EXCEPT !.pc = "ic_loop", !.rows = rows, !.icSize = chunkSize, !.mode = mode,
              !.chunks = chunkArray(rows, chunkSize), !.i = 0,
              !.insertedTotal = 0, !.caller = caller]

\* The chunk counted before its error is looked at.
icResultCountsFirst(r, err) ==
    IF err # "none"
    THEN [returns |-> TRUE, error |-> Error(r.i + 1, Len(r.chunks), err),
          insertedTotal |-> r.insertedTotal + Len(r.chunks[r.i + 1])]
    ELSE [returns |-> FALSE, error |-> NoError,
          insertedTotal |-> r.insertedTotal + Len(r.chunks[r.i + 1])]

\* server.js 49/52/55 and 57: an error returns with the chunk's number and the
\* count so far; otherwise the chunk is counted and the loop goes on.
icResult(r, err) ==
    IF err # "none"
    THEN [returns |-> TRUE, error |-> Error(r.i + 1, Len(r.chunks), err),
          insertedTotal |-> r.insertedTotal]
    ELSE [returns |-> FALSE, error |-> NoError,
          insertedTotal |-> r.insertedTotal + Len(r.chunks[r.i + 1])]

\* catch (err) { res.status(500).json({ error: err.message }) }
caught(r, err) == respond(r, Answer(500, "exception", 0, err))

\* Where insertChunks returns to, with ret = { error, insertedTotal }.
returnTo(r, ret) ==
    CASE r.caller = "bulk" ->
           \* server.js 281-282, 288-289
           IF ret.error # NoError
           THEN respond(r, Answer(400, "chunk-error", 0, ret.error))
           ELSE respond(r, Answer(200, "inserted", ret.insertedTotal, NoError))
      [] r.caller = "ingest_mid" ->
           \* server.js 90-92
           IF ret.error # NoError THEN caught(r, ret.error)
           ELSE [r EXCEPT !.total = @ + ret.insertedTotal, !.buffer = <<>>, !.pc = "read"]
      [] r.caller = "ingest_end" ->
           \* server.js 97-100, 294
           IF ret.error # NoError THEN caught(r, ret.error)
           ELSE respond([r EXCEPT !.total = @ + ret.insertedTotal],
                        Answer(200, "stream-inserted", r.total + ret.insertedTotal, NoError))
      [] OTHER ->
           \* insertChunks called by itself: the result is what it returned.
           [r EXCEPT !.pc = "returned",
                     !.resp = Answer(0, "returned", ret.insertedTotal, ret.error)]

\* server.js 45-55: the loop takes the next chunk and awaits its write.
IcIssue(s) ==
    /\ req[s].pc = "ic_loop"
    /\ req[s].i < Len(req[s].chunks)
    /\ req' = [req EXCEPT ![s] =
                 awaitWrite(@, chunkWrite(req[s].mode, req[s].chunks[req[s].i + 1]), "ic_wait")]
    /\ UNCHANGED <<table, caVars, lsVars>>

\* The backend answers the chunk's write.
IcComplete(s) ==
    /\ req[s].pc = "ic_wait"
    /\ \E out \in Outcomes(Head(req[s].inflight), table) :
          LET r == answered(req[s], out, table)
              res == icResult(r, out.err)
          IN  /\ table' = out.table
              /\ UNCHANGED <<caVars, lsVars>>
              /\ req' = [req EXCEPT ![s] =
                            IF res.returns
                            THEN returnTo(r, [error |-> res.error, insertedTotal |-> res.insertedTotal])
                            ELSE [r EXCEPT !.insertedTotal = res.insertedTotal,
                                           !.i = @ + 1, !.pc = "ic_loop"]]

\* server.js 59: no chunk is left.
IcReturn(s) ==
    /\ req[s].pc = "ic_loop"
    /\ req[s].i >= Len(req[s].chunks)
    /\ req' = [req EXCEPT ![s] =
                 returnTo(@, [error |-> NoError, insertedTotal |-> req[s].insertedTotal])]
    /\ UNCHANGED <<table, caVars, lsVars>>

(***************************************************************************)
(* POST /api/T/bulk-upload (server.js 276-301).                            *)
(***************************************************************************)
\* The handler looking at fileUrl before items.
bulkDispatchFileFirst(body) ==
    IF body.kind = "array" THEN "array"
    ELSE IF body.fileUrl \notin {"absent", ""} THEN "file"
    ELSE IF body.itemsIsArray THEN "items"
    ELSE "usage"

\* server.js 279, 286, 292, 297: which input the handler takes.
bulkDispatch(body) ==
    IF body.kind = "array" THEN "array"
    ELSE IF body.itemsIsArray THEN "items"
    ELSE IF body.fileUrl \notin {"absent", ""} THEN "file"
    ELSE "usage"

BulkUploadHandler(s) ==
    /\ req[s].pc = "handler" /\ req[s].route = "bulk"
    /\ LET size == bulkChunkSize(req[s].query)
           r == [req[s] EXCEPT !.ran = TRUE, !.chunkSize = size]
           d == bulkDispatch(r.body)
       IN  req' = [req EXCEPT ![s] =
                     CASE d = "array" -> callInsertChunks(r, r.body.rows, size, "skip", "bulk")
                       [] d = "items" -> callInsertChunks(r, r.body.items, size, "skip", "bulk")
                       [] d = "file" -> [r EXCEPT !.pc = "fetch"]
                       [] OTHER -> respond(r, Answer(400, "usage", 0, NoError))]
    /\ UNCHANGED <<table, caVars, lsVars>>

(***************************************************************************)
(* ingestNdjsonFromUrl (server.js 63-101).  The resource is read a line at *)
(* a time; what the next line is, and where the resource ends, is the      *)
(* remote server's choice.                                                 *)
(***************************************************************************)
\* server.js 64-67, 78-80: fetch answers; a status that is not ok throws.
FetchRespond(s) ==
    /\ req[s].pc = "fetch"
    /\ \E ok \in BOOLEAN :
          req' = [req EXCEPT ![s] =
                    IF ok THEN [@ EXCEPT !.pc = "read", !.buffer = <<>>, !.total = 0]
                    ELSE caught(@, Error(0, 0, "fetch"))]
    /\ UNCHANGED <<table, caVars, lsVars>>

\* A line that does not parse skipped instead of thrown on.
ingestLineSkipsBad(r, line) ==
    IF line.kind \in {"blank", "bad"} THEN r
    ELSE LET buffer == Append(r.buffer, line.row)
         IN  IF Len(buffer) >= r.chunkSize
             THEN callInsertChunks([r EXCEPT !.buffer = buffer], buffer, r.chunkSize,
                                   "skip", "ingest_mid")
             ELSE [r EXCEPT !.buffer = buffer]

\* The buffer flushed only once it is over the chunk size.
ingestLineLateFlush(r, line) ==
    IF line.kind = "blank" THEN r
    ELSE IF line.kind = "bad" THEN caught(r, Error(0, 0, "parse"))
    ELSE LET buffer == Append(r.buffer, line.row)
         IN  IF Len(buffer) > r.chunkSize
             THEN callInsertChunks([r EXCEPT !.buffer = buffer], buffer, r.chunkSize,
                                   "skip", "ingest_mid")
             ELSE [r EXCEPT !.buffer = buffer]

\* server.js 83-93: what one line does to the ingestion.
ingestLine(r, line) ==
    IF line.kind = "blank" THEN r
    ELSE IF line.kind = "bad" THEN caught(r, Error(0, 0, "parse"))
    ELSE LET buffer == Append(r.buffer, line.row)
         IN  IF Len(buffer) >= r.chunkSize
             THEN callInsertChunks([r EXCEPT !.buffer = buffer], buffer, r.chunkSize,
                                   "skip", "ingest_mid")
             ELSE [r EXCEPT !.buffer = buffer]

ReadLine(s) ==
    /\ req[s].pc = "read"
    /\ Len(req[s].lines) < MaxLines
    /\ \E line \in Lines :
          req' = [req EXCEPT ![s] = ingestLine([@ EXCEPT !.lines = Append(@, line)], line)]
    /\ UNCHANGED <<table, caVars, lsVars>>

\* server.js 95-100: the stream ended; what is left in the buffer is flushed.
ReadEnd(s) ==
    /\ req[s].pc = "read"
    /\ LET r == [req[s] EXCEPT !.eof = TRUE]
       IN  req' = [req EXCEPT ![s] =
                     IF Len(r.buffer) > 0
                     THEN callInsertChunks(r, r.buffer, r.chunkSize, "skip", "ingest_end")
                     ELSE respond(r, Answer(200, "stream-inserted", r.total, NoError))]
    /\ UNCHANGED <<table, caVars, lsVars>>

(***************************************************************************)
(* POST /api/T, PUT /api/T/:id and DELETE /api/T/:id (server.js 106-126,   *)
(* 250-269).                                                               *)
(***************************************************************************)
\* server.js 108-119: an array body is chunked, any other body is one insert.
CreateHandler(s) ==
    /\ req[s].pc = "handler" /\ req[s].route = "create"
    /\ LET r == [req[s] EXCEPT !.ran = TRUE]
       IN  req' = [req EXCEPT ![s] =
                     IF r.body.kind = "array"
                     THEN [r EXCEPT !.chunks = chunkArray(r.body.rows, CreateChunkSize),
                                    !.i = 0, !.pc = "cr_loop"]
                     ELSE awaitWrite(r, Write("insert", <<[id |-> r.body.id, val |-> r.body.val]>>, 0, 0),
                                     "cr_single")]
    /\ UNCHANGED <<table, caVars, lsVars>>

\* server.js 112-113: the next chunk's insert is awaited.
CreateIssue(s) ==
    /\ req[s].pc = "cr_loop"
    /\ req[s].i < Len(req[s].chunks)
    /\ req' = [req EXCEPT ![s] =
                 awaitWrite(@, Write("insert", req[s].chunks[req[s].i + 1], 0, 0), "cr_wait")]
    /\ UNCHANGED <<table, caVars, lsVars>>

\* server.js 114: an error answers 400; otherwise the loop goes on.
CreateComplete(s) ==
    /\ req[s].pc = "cr_wait"
    /\ \E out \in Outcomes(Head(req[s].inflight), table) :
          LET r == answered(req[s], out, table)
          IN  /\ table' = out.table
              /\ UNCHANGED <<caVars, lsVars>>
              /\ req' = [req EXCEPT ![s] =
                            IF out.err # "none"
                            THEN respond(r, Answer(400, "backend-error", 0, Error(0, 0, out.err)))
                            ELSE [r EXCEPT !.i = @ + 1, !.pc = "cr_loop"]]

\* server.js 116: every chunk is in; the message counts the whole body.
CreateDone(s) ==
    /\ req[s].pc = "cr_loop"
    /\ req[s].i >= Len(req[s].chunks)
    /\ req' = [req EXCEPT ![s] =
                 respond(@, Answer(200, "created", Len(req[s].body.rows), NoError))]
    /\ UNCHANGED <<table, caVars, lsVars>>

\* server.js 252, 263: the update or the delete is awaited.
UpdateHandler(s) ==
    /\ req[s].pc = "handler" /\ req[s].route = "update"
    /\ req' = [req EXCEPT ![s] =
                 awaitWrite([@ EXCEPT !.ran = TRUE],
                            Write("update", <<>>, req[s].paramId, req[s].body.val), "one_wait")]
    /\ UNCHANGED <<table, caVars, lsVars>>

DeleteHandler(s) ==
    /\ req[s].pc = "handler" /\ req[s].route = "delete"
    /\ req' = [req EXCEPT ![s] =
                 awaitWrite([@ EXCEPT !.ran = TRUE],
                            Write("delete", <<>>, req[s].paramId, 0), "one_wait")]
    /\ UNCHANGED <<table, caVars, lsVars>>

\* server.js 120-121, 253-254, 264-265: the single write is answered.
SingleComplete(s) ==
    /\ req[s].pc \in {"cr_single", "one_wait"}
    /\ \E out \in Outcomes(Head(req[s].inflight), table) :
          LET r == answered(req[s], out, table)
          IN  /\ table' = out.table
              /\ UNCHANGED <<caVars, lsVars>>
              /\ req' = [req EXCEPT ![s] =
                            IF out.err # "none"
                            THEN respond(r, Answer(400, "backend-error", 0, Error(0, 0, out.err)))
                            ELSE respond(r, Answer(200, r.route, 1, NoError))]

(***************************************************************************)
(* Specifications.                                                         *)
(***************************************************************************)
ChunkOff ==
    /\ ca_pc = "off" /\ ca_caller = "none" /\ ca_query = Undefined
    /\ ca_array = <<>> /\ ca_size = 0 /\ ca_i = 0 /\ ca_result = <<>>
ListOff ==
    /\ ls_pc = "off" /\ ls_query = Undefined /\ ls_count = 0 /\ ls_fail = FALSE
    /\ ls_range = [from |-> 0, to |-> 0] /\ ls_resp = NoResp
ServerOff == table = <<>> /\ req = <<>>

\* chunkArray alone.
InitChunk == ChunkInit /\ ListOff /\ ServerOff
SpecChunk == InitChunk /\ [][ChunkNext]_vars
\* The loop runs on while its test holds: JavaScript runs a function to its end.
SpecChunkFair == SpecChunk /\ WF_vars(ChunkNext)

\* The List route alone.
InitList == ListInit /\ ChunkOff /\ ServerOff
SpecList == InitList /\ [][ListNext]_vars

\* The server: one slot serves mutating requests one after the other.
OneSlot == {1}
Init == ChunkOff /\ ListOff /\ table = <<>> /\ req = [s \in OneSlot |-> IdleReq]
Next ==
    \E s \in OneSlot :
        \/ Arrive(s) \/ Release(s) \/ AuthMiddleware(s)
        \/ CreateHandler(s) \/ CreateIssue(s) \/ CreateComplete(s) \/ CreateDone(s)
        \/ UpdateHandler(s) \/ DeleteHandler(s) \/ SingleComplete(s)
        \/ BulkUploadHandler(s) \/ IcIssue(s) \/ IcComplete(s) \/ IcReturn(s)
        \/ FetchRespond(s) \/ ReadLine(s) \/ ReadEnd(s)
Spec == Init /\ [][Next]_vars

\* insertChunks alone: any rows, chunk size and conflict mode, over a table that
\* is empty or holds a row.
InsertModes == {"skip", "merge", "insert"}
InsertTables == {<<>>, <<[id |-> 1, val |-> 1]>>}
InitInsert ==
    /\ ChunkOff /\ ListOff
    /\ table \in InsertTables
    /\ \E rows \in RowSeqs, size \in 1..MaxRows, mode \in InsertModes :
          req = [s \in OneSlot |-> callInsertChunks(IdleReq, rows, size, mode, "direct")]
NextInsert == \E s \in OneSlot : IcIssue(s) \/ IcComplete(s) \/ IcReturn(s)
SpecInsert == InitInsert /\ [][NextInsert]_vars

\* Two requests in progress at once.  The first is one of: a create of one row
\* more than a chunk of the create route holds, a create of one row, an update,
\* a delete, a bulk-upload of two rows in chunks of 1, a stream ingest in
\* chunks of 1; the second is a bulk-upload of two rows in chunks of 1 or a
\* delete.  The event loop runs one step of either at a time.
TwoSlots == {1, 2}
BigRows == [k \in 1..(CreateChunkSize + 1) |-> [id |-> k + 2, val |-> 1]]
ConcRequests ==
    {Request("create", Undefined, ArrayBody(BigRows), 0),
     Request("create", Undefined, ObjectBody(FALSE, <<>>, "absent", 1, 1), 0),
     Request("update", Undefined, ObjectBody(FALSE, <<>>, "absent", 0, 2), 1),
     Request("delete", Undefined, ObjectBody(FALSE, <<>>, "absent", 0, 0), 1),
     Request("bulk", <<"1">>, ArrayBody(<<[id |-> 1, val |-> 1], [id |-> 2, val |-> 1]>>), 0),
     Request("bulk", <<"1">>, ObjectBody(FALSE, <<>>, "url", 0, 0), 0)}
ConcOthers ==
    {Request("bulk", <<"1">>, ArrayBody(<<[id |-> 2, val |-> 2], [id |-> 1, val |-> 2]>>), 0),
     Request("delete", Undefined, ObjectBody(FALSE, <<>>, "absent", 0, 0), 1)}
ConcStart(q) == arrived(Header(<<"Bearer", "good">>), q)
InitConc ==
    /\ ChunkOff /\ ListOff
    /\ table = <<>>
    /\ \E q1 \in ConcRequests, q2 \in ConcOthers :
          req = [s \in TwoSlots |-> IF s = 1 THEN ConcStart(q1) ELSE ConcStart(q2)]
NextConc ==
    \E s \in TwoSlots :
        \/ AuthMiddleware(s)
        \/ CreateHandler(s) \/ CreateIssue(s) \/ CreateComplete(s) \/ CreateDone(s)
        \/ UpdateHandler(s) \/ DeleteHandler(s) \/ SingleComplete(s)
        \/ BulkUploadHandler(s) \/ IcIssue(s) \/ IcComplete(s) \/ IcReturn(s)
        \/ FetchRespond(s) \/ ReadLine(s) \/ ReadEnd(s)
SpecConc == InitConc /\ [][NextConc]_vars

(***************************************************************************)
(* Properties.                                                             *)
(***************************************************************************)
\* The decimal numeral of n, for the n whose digits are in Digits.
DigitChar(d) == CASE d = 0 -> "0" [] d = 1 -> "1" [] d = 2 -> "2" [] d = 3 -> "3"
Numeral(n) == IF n < 10 THEN <<DigitChar(n)>> ELSE <<DigitChar(n \div 10), DigitChar(n % 10)>>
Numbers == {n \in 1..33 : n % 10 <= 3}
\* A parameter that is absent, or holds no digit, or no digit but 0.
NoNumber(q) == q = Undefined \/ \A k \in 1..Len(q) : q[k] \notin (Digits \ {"0"})

\* C2: when chunkArray returns for a size >= 1, the chunks concatenated in
\* order are the input; every chunk is non-empty, every chunk but the last has
\* exactly size elements and the last has 1..size; an empty input gives no
\* chunk.
C2_ChunksPartitionInput ==
    (ca_pc = "done" /\ ca_size >= 1) =>
        /\ Concat(ca_result) = ca_array
        /\ \A k \in 1..Len(ca_result) :
              /\ Len(ca_result[k]) >= 1
              /\ Len(ca_result[k]) <= ca_size
              /\ k < Len(ca_result) => Len(ca_result[k]) = ca_size
        /\ (ca_array = <<>> => ca_result = <<>>)
        /\ ca_result = chunkArray(ca_array, ca_size)

\* A run that ends with a last chunk shorter than the others.
C2_Witness ==
    /\ ca_pc = "done" /\ ca_caller = "direct" /\ ca_size = 2 /\ Len(ca_array) = 3
    /\ Len(ca_result) = 2 /\ Len(ca_result[2]) = 1

\* The List route's range and answer are those of page p.
ListAnswerFor(p) ==
    /\ ls_range = [from |-> PageLimit * (p - 1), to |-> PageLimit * (p - 1) + PageLimit - 1]
    /\ ~ls_fail =>
          /\ ls_resp.status = 200
          /\ Len(ls_resp.results) = Min(PageLimit, Max(0, ls_count - PageLimit * (p - 1)))
          /\ \A k \in 1..Len(ls_resp.results) : ls_resp.results[k] = PageLimit * (p - 1) + k
          /\ ls_resp.page = p
          /\ ls_resp.total = ls_count
          /\ PageLimit * ls_resp.totalPages >= ls_count
          /\ PageLimit * (ls_resp.totalPages - 1) < ls_count
          /\ ls_resp.totalPages >= 0

\* C8: the List route asks for rows 30(p-1) .. 30(p-1)+29 of page p >= 1 and,
\* when the backend answers the select, returns min(30, max(0, N - 30(p-1)))
\* rows, those of that range in order, with page = p, total = N and
\* totalPages = ceil(N/30); a missing, digitless or zero page is page 1.
C8_ListPagination ==
    ls_pc = "sent" =>
        /\ \A p \in Numbers : ls_query = Numeral(p) => ListAnswerFor(p)
        /\ NoNumber(ls_query) => ListAnswerFor(1)

\* Page 2 of 45 rows: 15 results, 2 pages.
C8_Witness ==
    /\ ls_pc = "sent" /\ ls_query = <<"2">> /\ ls_count = 45
    /\ Len(ls_resp.results) = 15 /\ ls_resp.totalPages = 2 /\ ls_resp.page = 2

\* The chunk size bulk-upload computed is at least 1: 30 for an absent,
\* digitless or zero parameter, n for the numeral of n, 1 for a negative one.
BulkSizeRight ==
    (ca_caller = "bulk" /\ ca_pc # "call") =>
        /\ ca_size >= 1
        /\ NoNumber(ca_query) => ca_size = DefaultChunkSize
        /\ \A n \in Numbers : ca_query = Numeral(n) => ca_size = n
        /\ \A n \in Numbers : ca_query = <<"-">> \o Numeral(n) => ca_size = 1

\* C10 as amended: the chunk size bulk-upload computes is at least 1 for every
\* value of its parameter (30 for an absent, digitless or zero one), and
\* chunkArray returns for every size >= 1; with a size <= 0 it returns only for
\* the empty array, and on any other array it never returns.
C10_ChunkSizeAndTermination ==
    /\ []BulkSizeRight
    /\ (ca_caller = "bulk") => <>(ca_pc = "done")
    /\ (ca_caller = "direct" /\ (ca_size >= 1 \/ ca_array = <<>>)) => <>(ca_pc = "done")
    /\ (ca_caller = "direct" /\ ca_size <= 0 /\ ca_array # <<>>) => [](ca_pc # "done")

\* A bulk-upload call whose parameter is negative ran with chunks of 1.
C10_Witness ==
    /\ ca_pc = "done" /\ ca_caller = "bulk" /\ ca_query = <<"-", "2">>
    /\ ca_size = 1 /\ Len(ca_array) = 2 /\ Len(ca_result) = 2

\* C10 as stated: the size bulk-upload computes is at least 1, and chunkArray
\* returns for every size, a size <= 0 giving only zero-length slices.
C10_Original ==
    /\ []BulkSizeRight
    /\ [](ca_size <= 0 => \A k \in 1..Len(ca_result) : Len(ca_result[k]) = 0)
    /\ <>(ca_pc = "done")

(***************************************************************************)
(* Properties of the requests, read off their logs.                        *)
(***************************************************************************)
IssueEvents(log) == SelectSeq(log, LAMBDA e : e.ev = "issue")
JsonLines(lines) == SelectSeq(lines, LAMBDA l : l.kind = "json")
JsonRows(lines) == [k \in 1..Len(JsonLines(lines)) |-> JsonLines(lines)[k].row]
\* Chunk k (from 1) of rows cut in chunks of c, and how many there are.
ChunkOf(rows, c, k) == SubSeq(rows, (k - 1) * c + 1, Min(k * c, Len(rows)))
NumChunks(rows, c) == (Len(rows) + c - 1) \div c
ModeOp(mode) ==
    CASE mode = "skip" -> "upsert-ignore" [] mode = "merge" -> "upsert-merge" [] mode = "insert" -> "insert"

\* C1: when insertChunks returns, with k the number of the first chunk whose
\* write failed: the writes issued are those of chunks 1..k, in order, the first
\* k-1 answered without error and applied to the table, the k-th applied not
\* at all; insertedTotal is the length of chunks 1..k-1 together and the error
\* names chunk k of the number of chunks.  When no write failed every chunk was
\* written, insertedTotal is the length of the input and there is no error.
C1_FirstFailureHalts ==
    \A s \in DOMAIN req :
        LET r == req[s]
            n == NumChunks(r.rows, r.icSize)
            failed == r.resp.err # NoError
            k == IF failed THEN r.resp.err.chunk ELSE n + 1
            tried == IF failed THEN k ELSE n
        IN  r.pc = "returned" =>
              /\ failed => k \in 1..n /\ r.resp.err.of = n
              /\ Len(r.log) = 2 * tried
              /\ \A j \in 1..tried :
                    /\ r.log[2 * j - 1].ev = "issue"
                    /\ r.log[2 * j - 1].w = Write(ModeOp(r.mode), ChunkOf(r.rows, r.icSize, j), 0, 0)
                    /\ r.log[2 * j].ev = IF j < k THEN "ok" ELSE "fail"
                    /\ r.log[2 * j].after =
                          IF j < k THEN backendApply(r.log[2 * j - 1].w, r.log[2 * j].before).table
                          ELSE r.log[2 * j].before
                    /\ j > 1 => r.log[2 * j].before = r.log[2 * j - 2].after
              /\ failed => r.resp.err.msg = r.log[2 * k].err /\ r.resp.err.msg # "none"
              /\ tried > 0 => table = r.log[2 * tried].after
              /\ r.resp.count = Len(Concat([j \in 1..(k - 1) |-> ChunkOf(r.rows, r.icSize, j)]))
              /\ ~failed => r.resp.count = Len(r.rows)

\* In insert mode the second of three chunks repeats an id: one row is counted.
C1_Witness ==
    \E s \in DOMAIN req :
        /\ req[s].pc = "returned" /\ req[s].mode = "insert" /\ req[s].icSize = 1
        /\ Len(req[s].rows) = 3
        /\ req[s].resp.err = Error(2, 3, "duplicate") /\ req[s].resp.count = 1
        /\ Len(table) = 1

\* The headers of AuthHeaders by what their token is.
Verified(header) == header = Header(<<"Bearer", "good">>)
FailsVerification(header) == header \in {Header(<<"Bearer">>), Header(<<"Bearer", "expired">>)}
MutatingRoutes == {"create", "update", "delete", "bulk"}

\* C3: a request without an Authorization header is answered 401 and one whose
\* token fails verification 403, without the handler having run or a write
\* having been issued; a handler runs, and a write is issued, only for a
\* request whose token verified, with the claims attached.
C3_AuthGate ==
    \A s \in DOMAIN req :
        LET r == req[s]
        IN  r.route \in MutatingRoutes =>
              /\ (r.pc = "done" /\ ~r.header.given) =>
                    r.resp.status = 401 /\ ~r.ran /\ r.log = <<>>
              /\ (r.pc = "done" /\ FailsVerification(r.header)) =>
                    r.resp.status = 403 /\ ~r.ran /\ r.log = <<>>
              /\ (r.ran \/ r.log # <<>> \/ r.pc \notin {"idle", "mw", "done"}) =>
                    Verified(r.header) /\ r.user = "claims"
              /\ (r.pc = "done" /\ Verified(r.header)) => r.ran

\* A delete with an expired token: answered 403, the table as it was.
C3_Witness ==
    \E s \in DOMAIN req :
        /\ req[s].pc = "done" /\ req[s].route = "delete"
        /\ req[s].header = Header(<<"Bearer", "expired">>)
        /\ req[s].resp.status = 403 /\ Len(table) > 0

\* A bulk-upload body by the shapes it carries.
HasItems(body) == body.kind = "object" /\ body.itemsIsArray
HasFileUrl(body) == body.kind = "object" /\ body.fileUrl = "url"
ShapeCount(body) ==
    (IF body.kind = "array" THEN 1 ELSE 0) + (IF HasItems(body) THEN 1 ELSE 0)
    + (IF HasFileUrl(body) THEN 1 ELSE 0)
StreamRequest(r) == r.route = "bulk" /\ r.ran /\ HasFileUrl(r.body) /\ ~HasItems(r.body)

\* C4: in a stream ingest with chunk size c the buffer never holds more than c
\* records, and an ingest that ends with its count has issued, for the n JSON
\* lines of the resource, ceil(n/c) writes, each answered before the next: the
\* k-th is the upsert of records (k-1)c+1 .. min(kc, n); the count is n.  Blank
\* lines are in no write and not counted.
C4_StreamWrites ==
    \A s \in DOMAIN req :
        LET r == req[s]
            c == r.chunkSize
            recs == JsonRows(r.lines)
            n == Len(recs)
        IN  StreamRequest(r) =>
              /\ c >= 1
              /\ Len(r.buffer) <= c
              /\ r.resp.kind = "stream-inserted" =>
                    /\ r.eof /\ r.resp.status = 200 /\ r.resp.count = n
                    /\ Len(r.log) = 2 * NumChunks(recs, c)
                    /\ \A k \in 1..NumChunks(recs, c) :
                          /\ r.log[2 * k - 1].ev = "issue"
                          /\ r.log[2 * k - 1].w = Write("upsert-ignore", ChunkOf(recs, c, k), 0, 0)
                          /\ r.log[2 * k].ev = "ok"
                          /\ k <= n \div c => Len(r.log[2 * k - 1].w.rows) = c
                          /\ k > n \div c => Len(r.log[2 * k - 1].w.rows) = n % c

\* Three JSON lines and a blank one, chunks of 2: writes of 2 and 1, total 3.
C4_Witness ==
    \E s \in DOMAIN req :
        /\ StreamRequest(req[s]) /\ req[s].chunkSize = 2
        /\ req[s].resp = Answer(200, "stream-inserted", 3, NoError)
        /\ Len(JsonLines(req[s].lines)) = 3
        /\ Len(req[s].log) = 4
        /\ Len(req[s].log[1].w.rows) = 2 /\ Len(req[s].log[3].w.rows) = 1

\* C5: every write of a bulk-upload is a skip-mode upsert, and a skip-mode
\* upsert is never answered with a duplicate error; applied, it leaves every
\* row that was in the table as it was, adds for each new id the first row of
\* the chunk with that id, and leaves one row per id.
C5_SkipNeverDuplicates ==
    /\ distinctIds(table)
    /\ \A s \in DOMAIN req : \A j \in 1..Len(req[s].log) :
          LET e == req[s].log[j]
          IN  /\ req[s].route = "bulk" => e.w.op = "upsert-ignore"
              /\ (e.w.op = "upsert-ignore" /\ e.ev # "issue") =>
                    /\ e.err \in {"none", "other"}
                    /\ e.ev = "fail" => e.after = e.before
                    /\ e.ev = "ok" =>
                          /\ SubSeq(e.after, 1, Len(e.before)) = e.before
                          /\ distinctIds(e.after)
                          /\ idsOf(e.after) = idsOf(e.before) \cup idsOf(e.w.rows)
                          /\ \A a \in Len(e.before) + 1 .. Len(e.after) :
                                \E k \in 1..Len(e.w.rows) :
                                    /\ e.w.rows[k] = e.after[a]
                                    /\ \A m \in 1..(k - 1) : e.w.rows[m].id # e.after[a].id

\* One chunk repeats the id of a row of the table and holds another id twice:
\* the old row stays and the first of the two new ones is added.
C5_Witness ==
    \E s \in DOMAIN req : \E j \in 1..Len(req[s].log) :
        LET e == req[s].log[j]
        IN  /\ req[s].route = "bulk" /\ e.ev = "ok"
            /\ e.before = <<[id |-> 1, val |-> 2]>>
            /\ e.w.rows = <<[id |-> 1, val |-> 1], [id |-> 2, val |-> 1], [id |-> 2, val |-> 2]>>
            /\ e.after = <<[id |-> 1, val |-> 2], [id |-> 2, val |-> 1]>>

\* C6 as stated: a bulk-upload request that does not carry exactly one of the
\* three shapes is answered 400 and issues no write.
C6_Original ==
    \A s \in DOMAIN req :
        LET r == req[s]
        IN  (r.route = "bulk" /\ r.ran /\ ShapeCount(r.body) # 1) =>
              r.pc = "done" /\ r.resp.status = 400 /\ r.log = <<>>

\* C6 as amended: a request with none of the shapes is answered 400 and issues
\* no write; one with a shape is taken by the first it carries of array body,
\* items, fileUrl: with an items array and a fileUrl the items are inserted and
\* the URL is never fetched.
C6_FirstShapeWins ==
    \A s \in DOMAIN req :
        LET r == req[s]
            issued == IssueEvents(r.log)
            input == IF r.body.kind = "array" THEN r.body.rows ELSE r.body.items
        IN  (r.route = "bulk" /\ r.ran) =>
              /\ ShapeCount(r.body) = 0 =>
                    r.pc = "done" /\ r.resp = Answer(400, "usage", 0, NoError) /\ r.log = <<>>
              /\ ShapeCount(r.body) >= 1 => r.resp.kind # "usage"
              /\ (r.body.kind = "array" \/ HasItems(r.body)) =>
                    /\ r.pc \notin {"fetch", "read"} /\ r.lines = <<>> /\ ~r.eof
                    /\ r.resp.kind \in {"none", "inserted", "chunk-error"}
                    /\ r.rows = input
                    /\ \A k \in 1..Len(issued) : issued[k].w.rows = ChunkOf(input, r.chunkSize, k)
                    /\ r.resp.kind = "inserted" =>
                          r.resp.status = 200 /\ r.resp.count = Len(input)
                          /\ Len(issued) = NumChunks(input, r.chunkSize)

\* A body with two items and a fileUrl: answered 200 with the items inserted.
C6_Witness ==
    \E s \in DOMAIN req :
        /\ req[s].route = "bulk" /\ HasItems(req[s].body) /\ HasFileUrl(req[s].body)
        /\ Len(req[s].body.items) = 2
        /\ req[s].resp = Answer(200, "inserted", 2, NoError)
        /\ Len(table) = 2

\* C7: once a line that does not parse has been read the request is over,
\* answered 500 with the parse error: the line is the last one read, the writes
\* issued are those of the full chunks of the records before it, each answered
\* without error and still in the table, and the records after the last full
\* chunk were never written.
C7_ParseFailureAborts ==
    \A s \in DOMAIN req :
        LET r == req[s]
            c == r.chunkSize
            recs == JsonRows(r.lines)
            full == Len(recs) \div c
        IN  (\E k \in 1..Len(r.lines) : r.lines[k].kind = "bad") =>
              /\ r.pc = "done"
              /\ r.resp = Answer(500, "exception", 0, Error(0, 0, "parse"))
              /\ \A k \in 1..Len(r.lines) : r.lines[k].kind = "bad" <=> k = Len(r.lines)
              /\ ~r.eof
              /\ Len(r.log) = 2 * full
              /\ \A k \in 1..full :
                    /\ r.log[2 * k - 1].ev = "issue"
                    /\ r.log[2 * k - 1].w.rows = ChunkOf(recs, c, k)
                    /\ r.log[2 * k].ev = "ok"
              /\ r.buffer = SubSeq(recs, full * c + 1, Len(recs))
              /\ full > 0 => table = r.log[2 * full].after

\* Chunks of 2: two records are flushed, then a line does not parse.
C7_Witness ==
    \E s \in DOMAIN req :
        /\ req[s].pc = "done" /\ req[s].chunkSize = 2
        /\ Len(req[s].lines) = 3 /\ req[s].lines[3].kind = "bad"
        /\ req[s].lines[1].kind = "json" /\ req[s].lines[2].kind = "json"
        /\ Len(req[s].log) = 2 /\ req[s].log[2].ev = "ok"
        /\ req[s].resp.status = 500 /\ req[s].resp.err.msg = "parse"

\* The rows a request is to write, in the order of its input.
RowInput(r) ==
    IF r.route = "bulk" /\ r.body.kind = "object" /\ ~r.body.itemsIsArray THEN JsonRows(r.lines)
    ELSE IF r.route = "bulk" /\ r.body.kind = "object" THEN r.body.items
    ELSE IF r.body.kind = "array" THEN r.body.rows
    ELSE <<[id |-> r.body.id, val |-> r.body.val]>>

\* C9: a request has at most one write in flight; every write it issues but
\* its first follows the answer, without error, to the one before, and every
\* answer follows its write; the rows it writes are those of its input in
\* order, whether the chunks of an array or the lines of a stream.
C9_WritesSequential ==
    \A s \in DOMAIN req :
        LET r == req[s]
            issued == IssueEvents(r.log)
            written == Concat([k \in 1..Len(issued) |-> issued[k].w.rows])
        IN  /\ Len(r.inflight) <= 1
            /\ Len(r.inflight) = 2 * Len(issued) - Len(r.log)
            /\ \A j \in 1..Len(r.log) :
                  IF r.log[j].ev = "issue"
                  THEN j > 1 => r.log[j - 1].ev = "ok"
                  ELSE j > 1 /\ r.log[j - 1].ev = "issue" /\ r.log[j - 1].w = r.log[j].w
            /\ written = SubSeq(RowInput(r), 1, Len(written))

\* Both requests wait for the write of their second chunk: a create of 5001
\* rows and a bulk-upload in chunks of 1.
C9_Witness ==
    /\ req[1].route = "create" /\ Len(req[1].chunks) = 2
    /\ Len(req[1].log) = 3 /\ Len(req[1].inflight) = 1
    /\ req[2].route = "bulk" /\ Len(req[2].chunks) = 2
    /\ Len(req[2].log) = 3 /\ Len(req[2].inflight) = 1

=============================================================================
